---- MODULE Spec2Model ----
(***************************************************************************)
(* Convert2Cbz: a model of the batch driver (convert2cbz.py) and of the    *)
(* converters (converter.py).                                              *)
(*                                                                         *)
(* Spec      the batch driver: process_input / process_path and the jobs   *)
(*           it dispatches (convert_pdf_to_cbz, convert_cbr_to_cbz,        *)
(*           convert_epub_to_cbz), with the validators is_valid_rar and    *)
(*           is_valid_zip.  PdfConverter.convert is one step of a job here *)
(*           and is refined by SpecPdf.                                    *)
(* SpecPdf   PdfConverter.convert on a valid page-document: the page       *)
(*           workers of the process pool and the as_completed loop that    *)
(*           writes their results to the archive.                          *)
(* SpecNames the entry names of a document of many pages: the padding set  *)
(*           by convert and the name process_page builds from it.          *)
(* SpecDpi   PdfConverter._compute_dpi and PdfConverter.analyze on         *)
(*           documents of given page widths.                               *)
(* SpecEpub  resolve_image on the spine documents of an extracted e-book   *)
(*           package.                                                      *)
(***************************************************************************)
EXTENDS Integers, Sequences, FiniteSets, TLC

\* Largest number of immediate files in the scanned directory.
MaxFiles == 2

VARIABLES
    mode,       \* "file": args.path is a file; "dir": args.path is a directory
    dir,        \* the files found at args.path, in glob order
    output,     \* args.output as given: "none", "dir" or "file"
    flag_unrar, \* what check_unrar() answers (./UnRAR.exe exists)
    fs,         \* the destination paths and what each holds
    job,        \* per file: the conversion job dispatched for it, if any
    pc,         \* where the driver (the main process) stands
    next_pdf    \* index into list_pdf of the sequential PDF loop

drv_vars == <<mode, dir, output, flag_unrar, fs, job, pc, next_pdf>>

\* Largest page count of a document whose page workers are interleaved.
MaxPages == 3
\* Largest page count of a document whose entry names are built.
MaxNamePages == 101
\* Largest page count of a document whose resolution is computed.
MaxDpiPages == 3
\* the most spine items of a package (SpecEpub)
MaxSpine == 2

VARIABLES
    num_pages,  \* len(pdf): the page count of the input document
    widths,     \* the mediabox width of each page, in points
    format,     \* self.format: "png" or "jpeg"
    dpi,        \* self.dpi; 0 stands for None (both are "not self.dpi")
    padding,    \* self.padding
    archive,    \* the entries written to the destination archive, in order
    page,       \* per page: its future, and the worker's copy of self
    cpc,        \* where PdfConverter.convert stands
    names,      \* SpecNames: the entry names built so far
    named,      \* SpecNames: the number of pages submitted so far
    report,     \* dpi_values of _compute_dpi and analyze, and what analyze prints
    dest        \* self.output of the page-document: "absent", "open" or "closed"

pdf_vars == <<num_pages, widths, format, dpi, padding, archive, page, cpc, names, named,
              report, dest>>

VARIABLES
    spine,      \* the spine items of the package document, in spine order
    ri_spine_list, \* resolve_image: the spine documents it was called with
    ri_images,     \* resolve_image: the image paths found so far
    ri_pos,       \* resolve_image: the position reached in ri_spine_list
    rpc         \* where resolve_image stands

epub_vars == <<spine, ri_spine_list, ri_images, ri_pos, rpc>>

vars == <<drv_vars, pdf_vars, epub_vars>>

\* no resolution of spine documents is under way
EpubIdle ==
    /\ spine = <<>>
    /\ ri_spine_list = <<>>
    /\ ri_images = <<>>
    /\ ri_pos = 1
    /\ rpc = "idle"

NoReport == [values |-> <<>>, min |-> 0, max |-> 0, mean |-> 0, printed |-> FALSE]

\* no conversion of a page-document is under way
PdfIdle ==
    /\ num_pages = 0
    /\ widths = <<>>
    /\ format = "png"
    /\ dpi = 72
    /\ padding = 1
    /\ archive = <<>>
    /\ page = <<>>
    /\ cpc = "idle"
    /\ names = {}
    /\ named = 0
    /\ report = NoReport
    /\ dest = "absent"

\* no batch is under way
DrvIdle ==
    /\ mode = "file"
    /\ dir = <<>>
    /\ output = "none"
    /\ flag_unrar = FALSE
    /\ fs = <<>>
    /\ job = <<>>
    /\ pc = "idle"
    /\ next_pdf = 1

----------------------------------------------------------------------------
(* Files.  A file is its suffix and its bytes; the bytes are described by   *)
(* the format they really are (which need not match the suffix) and, for    *)
(* archives, by the member paths.  Member paths are numbered in their       *)
(* lexicographic order, so that comparing numbers compares paths.           *)

\* An <img> tag of a spine document: its src attribute is absent, empty, or
\* a reference; a reference is the member path it resolves to from the
\* package root (path), its spelling (form: "a.png" and "./a.png" are two
\* spellings of one path) and whether that member exists.
NoSrc    == [src |-> "absent", path |-> 0, form |-> 0, exists |-> FALSE]
EmptySrc == [src |-> "empty", path |-> 0, form |-> 0, exists |-> FALSE]
Img(path, form, exists) == [src |-> "ref", path |-> path, form |-> form, exists |-> exists]

\* A spine item: whether the manifest lists its idref, whether the file it
\* names exists, whether the HTML parser accepts it, and its <img> tags in
\* document order.
Doc(imgs) == [listed |-> TRUE, exists |-> TRUE, parses |-> TRUE, imgs |-> imgs]
UnlistedDoc(imgs) == [Doc(imgs) EXCEPT !.listed = FALSE]
MissingDoc == [Doc(<<>>) EXCEPT !.exists = FALSE]
UnparsableDoc == [Doc(<<>>) EXCEPT !.parses = FALSE]

NoPkg == [mimetype |-> FALSE, container |-> FALSE, spine |-> <<>>]

\* a well-formed rar archive with three members stored out of order
RarBody     == [fmt |-> "rar", damaged |-> FALSE, entries |-> <<2, 1, 3>>,
                pkg |-> NoPkg, pages |-> 0]
\* a well-formed rar archive with no file member
EmptyRarBody == [fmt |-> "rar", damaged |-> FALSE, entries |-> <<>>,
                pkg |-> NoPkg, pages |-> 0]
\* rar magic, but a member fails its checksum
BadRarBody  == [fmt |-> "rar", damaged |-> TRUE, entries |-> <<2, 1, 3>>,
                pkg |-> NoPkg, pages |-> 0]
\* a well-formed zip container of images that is no e-book package
ZipBody     == [fmt |-> "zip", damaged |-> FALSE, entries |-> <<2, 1>>,
                pkg |-> NoPkg, pages |-> 0]
\* a zip container with a member that fails its checksum
BadZipBody  == [fmt |-> "zip", damaged |-> TRUE, entries |-> <<2, 1>>,
                pkg |-> NoPkg, pages |-> 0]
\* a well-formed e-book package: mimetype (5), container (4), package
\* document (6), one spine document (7) and two images (2, 1) it shows
EpubBody    == [fmt |-> "zip", damaged |-> FALSE, entries |-> <<5, 4, 6, 7, 2, 1>>,
                pkg |-> [mimetype |-> TRUE, container |-> TRUE,
                         spine |-> <<Doc(<<Img(2, 1, TRUE), Img(1, 1, TRUE)>>)>>],
                pages |-> 0]
\* a two-page page-document
PdfBody     == [fmt |-> "pdf", damaged |-> FALSE, entries |-> <<>>,
                pkg |-> NoPkg, pages |-> 2]
\* bytes of no supported format (also: an empty file, a truncated header)
JunkBody    == [fmt |-> "junk", damaged |-> FALSE, entries |-> <<>>,
                pkg |-> NoPkg, pages |-> 0]

Suffixes == {".pdf", ".PDF", ".cbr", ".epub", ".txt"}

BodiesOf(suffix) ==
    CASE suffix = ".pdf"  -> {PdfBody, JunkBody}
      [] suffix = ".PDF"  -> {PdfBody}
      [] suffix = ".cbr"  -> {RarBody, EmptyRarBody, BadRarBody, ZipBody, BadZipBody, JunkBody}
      [] suffix = ".epub" -> {EpubBody, ZipBody, JunkBody}
      [] OTHER            -> {JunkBody}

Files == UNION {[suffix : {s}, body : BodiesOf(s)] : s \in Suffixes}

\* the files a scanned directory is populated with: every suffix, with
\* well-formed, mislabelled and unreadable bytes
DirBodiesOf(suffix) == BodiesOf(suffix) \ {EmptyRarBody, BadRarBody, BadZipBody}

DirFiles == UNION {[suffix : {s}, body : DirBodiesOf(s)] : s \in Suffixes}

FileIds == 1..MaxFiles

----------------------------------------------------------------------------
(* list_files: the three lists, each in glob order.                         *)

\* str.lower() on a suffix
Lower(suffix) == IF suffix = ".PDF" THEN ".pdf" ELSE suffix

RECURSIVE SelectIds(_, _, _)
SelectIds(d, suffix, i) ==
    IF i > Len(d) THEN <<>>
    ELSE (IF Lower(d[i].suffix) = suffix THEN <<i>> ELSE <<>>) \o SelectIds(d, suffix, i + 1)

list_files(d) ==
    [list_pdf  |-> SelectIds(d, ".pdf", 1),
     list_cbr  |-> SelectIds(d, ".cbr", 1),
     list_epub |-> SelectIds(d, ".epub", 1)]

Range(s) == {s[i] : i \in 1..Len(s)}

----------------------------------------------------------------------------
(* The archive readers.  What rarfile.RarFile(...).testrar() and            *)
(* zipfile.ZipFile(...).testzip() do with a file: they answer, or raise an  *)
(* exception of one of the classes below.  "Error" is any exception outside *)
(* the classes the validators name: the source cannot be read (OSError),    *)
(* the unrar tool cannot be run (rarfile.RarCannotExec), an encrypted       *)
(* member (RuntimeError), ...                                               *)

Faults == {"none", "rar_err", "zip_err", "perm"}

RarRead(body, fault) ==
    IF fault = "rar_err" THEN "Error"
    ELSE IF body.fmt # "rar" THEN "NotRarFile"
    ELSE IF body.damaged THEN "BadRarFile"
    ELSE "ok"

ZipRead(body, fault) ==
    IF fault = "zip_err" THEN "Error"
    ELSE IF body.fmt # "zip" THEN "BadZipfile"
    ELSE IF body.damaged THEN "badmember"
    ELSE "ok"

\* Converter.is_valid_rar: "true", "false", or "raise" when the exception
\* is none of BadRarFile, NotRarFile
is_valid_rar(body, fault) ==
    LET r == RarRead(body, fault) IN
    IF r = "ok" THEN "true"
    ELSE IF r \in {"BadRarFile", "NotRarFile"} THEN "false"
    ELSE "raise"

\* Converter.is_valid_zip: testzip() names the first bad member, or None
is_valid_zip(body, fault) ==
    LET r == ZipRead(body, fault) IN
    IF r = "ok" THEN "true"
    ELSE IF r \in {"badmember", "BadZipfile"} THEN "false"
    ELSE "raise"

----------------------------------------------------------------------------
(* Destinations.                                                            *)

Locs == {"beside", "outdir", "outparent", "outfile"}
NoPath == [loc |-> "nowhere", f |-> 0]

\* the output path a convert_*_to_cbz function computes for input f when
\* it is handed the output setting o
OutputPath(f, o) ==
    CASE o = "none"   -> [loc |-> "beside", f |-> f]
      [] o = "dir"    -> [loc |-> "outdir", f |-> f]
      [] o = "parent" -> [loc |-> "outparent", f |-> f]
      [] OTHER        -> [loc |-> "outfile", f |-> 0]

Paths == {OutputPath(f, o) : f \in FileIds, o \in {"none", "dir", "parent", "file"}}

\* what a path holds: nothing, or bytes.  Bytes are told apart by who wrote
\* them: an earlier run ("old"), the source file id copied verbatim
\* ("src"), zipfile.ZipFile being written ("open") or closed ("ZipFile"),
\* open(..., "w") of check_file_permission ("trunc").
NoFile   == [by |-> "nobody", id |-> 0, entries |-> <<>>]
OldFile  == [by |-> "old", id |-> 0, entries |-> <<>>]
TruncFile == [by |-> "trunc", id |-> 0, entries |-> <<>>]
OpenZip  == [by |-> "open", id |-> 0, entries |-> <<>>]
ZipOf(entries) == [by |-> "ZipFile", id |-> 0, entries |-> entries]
SrcBytes(f, body) == [by |-> "src", id |-> f, entries |-> body.entries]

\* the files in the order in which rglob finds them
unsorted(s) == s

\* sorted(): ascending order of a sequence without repeats
RECURSIVE sorted(_)
sorted(s) ==
    IF s = <<>> THEN <<>>
    ELSE LET m == CHOOSE x \in Range(s) : \A y \in Range(s) : x <= y
         IN <<m>> \o sorted(SelectSeq(s, LAMBDA x : x # m))

\* all orders in which the elements of set S can be listed
Orders(S) ==
    {s \in [1..Cardinality(S) -> S] : \A i, j \in 1..Cardinality(S) : i # j => s[i] # s[j]}

----------------------------------------------------------------------------
(* The converters, as far as the driver sees them.  Each is evaluated up to *)
(* the point where it either ends (returns, raises, sys.exit) or has opened *)
(* its destination for writing; "pend" is what the destination holds once   *)
(* the writer is closed.                                                    *)

\* the converters whose convert runs inside "with
\* tempfile.TemporaryDirectory() as temp_dir" (lines 124 and 185)
uses_temp_dir(conv) == conv \in {"CbrConverter", "EpubConverter"}

\* a temporary directory that outlives a block left by sys.exit
temp_dir_kept_on_exit(out) == IF out = "exit" THEN "live" ELSE "removed"

\* TemporaryDirectory.__exit__: the with statement runs it however the block
\* is left: by its end or a return ("returned"), by an exception ("raised"),
\* by the SystemExit of sys.exit ("exit"); it removes the directory
temp_dir_exit(out) == "removed"

Ended(conv, vrar, vzip, out) ==
    [conv |-> conv, vrar |-> vrar, vzip |-> vzip, next |-> "finished",
     out |-> out, pend |-> NoFile,
     tmp |-> IF uses_temp_dir(conv) THEN temp_dir_exit(out) ELSE "none"]

Writes(conv, vrar, vzip, content) ==
    [conv |-> conv, vrar |-> vrar, vzip |-> vzip, next |-> "writing",
     out |-> "none", pend |-> content,
     tmp |-> IF uses_temp_dir(conv) THEN "live" ELSE "none"]

\* EpubConverter.convert, lines 155-157: the spine items the manifest lists
spines_images(pkg) == SelectSeq(pkg.spine, LAMBDA d : d.listed)

\* resolve_image, line 72, with no memory of the images found
never_in_images(img_path, images) == TRUE

\* resolve_image, line 72: img_path not in images
not_in_images(img_path, images) == img_path \notin Range(images)

\* resolve_image, lines 65-73: the <img> tags of one parsed document.  The
\* subscript of a tag without src raises KeyError, which no handler of
\* resolve_image catches.
RECURSIVE resolve_tags(_, _)
resolve_tags(imgs, images) ==
    IF imgs = <<>> THEN [raised |-> FALSE, images |-> images]
    ELSE LET img_tag == Head(imgs) IN
         IF img_tag.src = "absent" THEN [raised |-> TRUE, images |-> <<>>]
         ELSE IF img_tag.src = "empty" THEN resolve_tags(Tail(imgs), images)
         ELSE IF img_tag.exists /\ not_in_images(img_tag.path, images)
              THEN resolve_tags(Tail(imgs), Append(images, img_tag.path))
         ELSE resolve_tags(Tail(imgs), images)

\* resolve_image, lines 58-77: one turn of the loop over spine_list
resolve_doc(spine_path, images) ==
    IF ~spine_path.exists THEN [raised |-> FALSE, images |-> images]
    ELSE IF ~spine_path.parses THEN [raised |-> FALSE, images |-> images]
    ELSE resolve_tags(spine_path.imgs, images)

RECURSIVE resolve_from(_, _)
resolve_from(spine_list, images) ==
    IF spine_list = <<>> THEN [raised |-> FALSE, images |-> images]
    ELSE LET r == resolve_doc(Head(spine_list), images) IN
         IF r.raised THEN r ELSE resolve_from(Tail(spine_list), r.images)

\* resolve_image(spine_list, temp_dir)
resolve_image(spine_list) == resolve_from(spine_list, <<>>)

\* PdfConverter.convert: the document is opened first (a file that is no
\* page-document raises), then the destination; the pages are written as
\* their workers complete.  order: the completion order of the pages.
PdfConverter_convert(f, body, fault, order) ==
    IF body.fmt # "pdf" THEN Ended("PdfConverter", "none", "none", "raised")
    ELSE IF fault = "perm" THEN Ended("PdfConverter", "none", "none", "exit")
    ELSE Writes("PdfConverter", "none", "none", ZipOf(order))

\* CbrConverter.convert
CbrConverter_convert(f, body, fault, vrar, vzip) ==
    LET files == sorted(body.entries) IN
    IF body.fmt # "rar" \/ body.damaged THEN Ended("CbrConverter", vrar, vzip, "raised")
    ELSE IF Len(files) = 0 THEN Ended("CbrConverter", vrar, vzip, "returned")
    ELSE IF fault = "perm" THEN Ended("CbrConverter", vrar, vzip, "exit")
    ELSE Writes("CbrConverter", vrar, vzip, ZipOf(files))

\* EpubConverter.convert
EpubConverter_convert(f, body, fault) ==
    LET r == resolve_image(spines_images(body.pkg))
        images == r.images IN
    IF ZipRead(body, fault) # "ok" THEN Ended("EpubConverter", "none", "none", "raised")
    ELSE IF ~body.pkg.mimetype THEN Ended("EpubConverter", "none", "none", "returned")
    ELSE IF ~body.pkg.container THEN Ended("EpubConverter", "none", "none", "returned")
    ELSE IF r.raised THEN Ended("EpubConverter", "none", "none", "raised")
    ELSE IF Len(images) = 0 THEN Ended("EpubConverter", "none", "none", "returned")
    ELSE IF fault = "perm" THEN Ended("EpubConverter", "none", "none", "exit")
    ELSE Writes("EpubConverter", "none", "none", ZipOf(images))

\* shutil.copy(input_path, output): PermissionError is an ordinary exception
copy_file(f, body, fault, vrar, vzip) ==
    IF fault = "perm" THEN Ended("copy", vrar, vzip, "raised")
    ELSE Writes("copy", vrar, vzip, SrcBytes(f, body))

\* convert_cbr_to_cbz with the zip branch re-encoding through the converter
\* instead of copying
convert_cbr_to_cbz_reencode(f, body, fault) ==
    LET vrar == is_valid_rar(body, fault) IN
    IF vrar = "raise" THEN Ended("none", vrar, "none", "raised")
    ELSE IF vrar = "true" THEN CbrConverter_convert(f, body, fault, vrar, "none")
    ELSE LET vzip == is_valid_zip(body, fault) IN
         IF vzip = "raise" THEN Ended("none", vrar, vzip, "raised")
         ELSE IF vzip = "true"
              THEN Writes("CbrConverter", vrar, vzip, ZipOf(sorted(body.entries)))
         ELSE Ended("skip", vrar, vzip, "returned")

\* convert_cbr_to_cbz, after the output path is computed
convert_cbr_to_cbz(f, body, fault) ==
    LET vrar == is_valid_rar(body, fault) IN
    IF vrar = "raise" THEN Ended("none", vrar, "none", "raised")
    ELSE IF vrar = "true" THEN CbrConverter_convert(f, body, fault, vrar, "none")
    ELSE LET vzip == is_valid_zip(body, fault) IN
         IF vzip = "raise" THEN Ended("none", vrar, vzip, "raised")
         ELSE IF vzip = "true" THEN copy_file(f, body, fault, vrar, vzip)
         ELSE Ended("skip", vrar, vzip, "returned")

convert_epub_to_cbz(f, body, fault) == EpubConverter_convert(f, body, fault)

convert_pdf_to_cbz(f, body, fault, order) == PdfConverter_convert(f, body, fault, order)

\* the function a job runs, by name
RunFn(fn, f, body, fault, order) ==
    CASE fn = "convert_pdf_to_cbz"  -> convert_pdf_to_cbz(f, body, fault, order)
      [] fn = "convert_cbr_to_cbz"  -> convert_cbr_to_cbz(f, body, fault)
      [] OTHER                      -> convert_epub_to_cbz(f, body, fault)

----------------------------------------------------------------------------
(* Jobs.                                                                    *)

NoJob == [st |-> "none", fn |-> "none", conv |-> "none", vrar |-> "none",
          vzip |-> "none", out |-> "none", path |-> NoPath, pend |-> NoFile,
          collected |-> FALSE, tmp |-> "none"]

\* a job as dispatched: the function and the output path it will use
Submitted(fn, f, o) == [NoJob EXCEPT !.st = "submitted", !.fn = fn, !.path = OutputPath(f, o)]

Lists == list_files(dir)

\* the files of the pool the driver is waiting on
Group ==
    CASE pc \in {"cbr_wait", "cbr_unwind"}   -> Range(Lists.list_cbr)
      [] pc \in {"epub_wait", "epub_unwind"} -> Range(Lists.list_epub)
      [] OTHER -> {}

DrvInit ==
    /\ \/ /\ mode = "file"
          /\ dir \in [1..1 -> Files]
          /\ \E old \in BOOLEAN : fs = [p \in Paths |-> IF old THEN OldFile ELSE NoFile]
       \/ /\ mode = "dir"
          /\ dir \in UNION {[1..n -> DirFiles] : n \in 0..MaxFiles}
          /\ fs = [p \in Paths |-> NoFile]
    /\ output \in {"none", "dir", "file"}
    /\ flag_unrar \in BOOLEAN
    /\ job = [f \in FileIds |-> NoJob]
    /\ pc = "start"
    /\ next_pdf = 1

\* the function process_input picks for a single file, by suffix
SingleFn(suffix) ==
    CASE Lower(suffix) = ".pdf"  -> "convert_pdf_to_cbz"
      [] Lower(suffix) = ".cbr"  -> "convert_cbr_to_cbz"
      [] Lower(suffix) = ".epub" -> "convert_epub_to_cbz"
      [] OTHER -> "none"

\* validate_output: an existing output file is opened for writing by
\* check_file_permission, which empties it; an output directory is one that
\* validate_output has just created
validate_output(files) ==
    LET p == OutputPath(0, "file") IN
    IF output = "file" /\ files[p] # NoFile THEN [files EXCEPT ![p] = TruncFile] ELSE files

\* process_input
ProcessInput ==
    /\ pc = "start"
    /\ fs' = validate_output(fs)
    /\ IF mode = "file"
       THEN LET fn == SingleFn(dir[1].suffix) IN
            IF fn = "none"
            THEN /\ pc' = "done"
                 /\ job' = job
            ELSE /\ pc' = "single"
                 /\ job' = [job EXCEPT ![1] = Submitted(fn, 1, output)]
       ELSE /\ pc' = "scan"
            /\ job' = job
    /\ UNCHANGED <<mode, dir, output, flag_unrar, next_pdf>>
    /\ UNCHANGED <<pdf_vars, epub_vars>>

\* process_input, after the call of the single file's function has ended
SingleReturn ==
    /\ pc = "single"
    /\ job[1].st = "finished"
    /\ pc' = CASE job[1].out = "returned" -> "done"
               [] job[1].out = "raised"   -> "crashed"
               [] OTHER                   -> "exited"
    /\ UNCHANGED <<mode, dir, output, flag_unrar, fs, job, next_pdf>>
    /\ UNCHANGED <<pdf_vars, epub_vars>>

\* process_path, lines 170-176: an output directory is replaced by its parent
ProcessPath ==
    /\ pc = "scan"
    /\ output' = IF output = "dir" THEN "parent" ELSE output
    /\ pc' = "pdf"
    /\ UNCHANGED <<mode, dir, flag_unrar, fs, job, next_pdf>>
    /\ UNCHANGED <<pdf_vars, epub_vars>>

\* process_path, lines 179-180: the PDF loop calls the next file's conversion
PdfCall ==
    /\ pc = "pdf"
    /\ next_pdf <= Len(Lists.list_pdf)
    /\ LET f == Lists.list_pdf[next_pdf] IN
       /\ job[f].st = "none"
       /\ job' = [job EXCEPT ![f] = Submitted("convert_pdf_to_cbz", f, output)]
    /\ UNCHANGED <<mode, dir, output, flag_unrar, fs, pc, next_pdf>>
    /\ UNCHANGED <<pdf_vars, epub_vars>>

\* the call returns, or its exception or SystemExit leaves process_path
PdfReturn ==
    /\ pc = "pdf"
    /\ next_pdf <= Len(Lists.list_pdf)
    /\ LET f == Lists.list_pdf[next_pdf] IN
       /\ job[f].st = "finished"
       /\ IF job[f].out = "returned"
          THEN /\ next_pdf' = next_pdf + 1
               /\ pc' = pc
          ELSE /\ next_pdf' = next_pdf
               /\ pc' = IF job[f].out = "raised" THEN "crashed" ELSE "exited"
    /\ UNCHANGED <<mode, dir, output, flag_unrar, fs, job>>
    /\ UNCHANGED <<pdf_vars, epub_vars>>

PdfLoopEnd ==
    /\ pc = "pdf"
    /\ next_pdf > Len(Lists.list_pdf)
    /\ pc' = "cbr"
    /\ UNCHANGED <<mode, dir, output, flag_unrar, fs, job, next_pdf>>
    /\ UNCHANGED <<pdf_vars, epub_vars>>

\* process_path, lines 183-188: the CBR pool, when UnRAR.exe is there
RunCbr ==
    /\ pc = "cbr"
    /\ IF Len(Lists.list_cbr) > 0 /\ flag_unrar
       THEN /\ job' = [f \in FileIds |->
                         IF f \in Range(Lists.list_cbr)
                         THEN Submitted("convert_cbr_to_cbz", f, output) ELSE job[f]]
            /\ pc' = "cbr_wait"
       ELSE /\ job' = job
            /\ pc' = "epub"
    /\ UNCHANGED <<mode, dir, output, flag_unrar, fs, next_pdf>>
    /\ UNCHANGED <<pdf_vars, epub_vars>>

\* process_path, lines 200-204: the EPUB pool submits convert_cbr_to_cbz
RunEpub ==
    /\ pc = "epub"
    /\ IF Len(Lists.list_epub) > 0
       THEN /\ job' = [f \in FileIds |->
                         IF f \in Range(Lists.list_epub)
                         THEN Submitted("convert_cbr_to_cbz", f, output) ELSE job[f]]
            /\ pc' = "epub_wait"
       ELSE /\ job' = job
            /\ pc' = "done"
    /\ UNCHANGED <<mode, dir, output, flag_unrar, fs, next_pdf>>
    /\ UNCHANGED <<pdf_vars, epub_vars>>

\* as_completed hands over a finished future; future.result() returns, or
\* raises what the worker raised: an Exception is logged, a SystemExit is
\* not an Exception and leaves the loop
Collect(f) ==
    /\ pc \in {"cbr_wait", "epub_wait"}
    /\ f \in Group
    /\ job[f].st = "finished"
    /\ ~job[f].collected
    /\ job' = [job EXCEPT ![f].collected = TRUE]
    /\ pc' = IF job[f].out = "exit"
             THEN (IF pc = "cbr_wait" THEN "cbr_unwind" ELSE "epub_unwind")
             ELSE pc
    /\ UNCHANGED <<mode, dir, output, flag_unrar, fs, next_pdf>>
    /\ UNCHANGED <<pdf_vars, epub_vars>>

\* every future was handed over: the pool is left
PoolDone ==
    /\ pc \in {"cbr_wait", "epub_wait"}
    /\ \A f \in Group : job[f].collected
    /\ pc' = IF pc = "cbr_wait" THEN "epub" ELSE "done"
    /\ UNCHANGED <<mode, dir, output, flag_unrar, fs, job, next_pdf>>
    /\ UNCHANGED <<pdf_vars, epub_vars>>

\* the SystemExit leaves the with block: the executor waits for the jobs
\* already submitted, then the exception leaves process_path
Unwind ==
    /\ pc \in {"cbr_unwind", "epub_unwind"}
    /\ \A f \in Group : job[f].st = "finished"
    /\ pc' = "exited"
    /\ UNCHANGED <<mode, dir, output, flag_unrar, fs, job, next_pdf>>
    /\ UNCHANGED <<pdf_vars, epub_vars>>

\* a job runs its function up to its end or to the opening of its archive
JobBegin(f) ==
    /\ job[f].st = "submitted"
    /\ \E fault \in Faults, order \in Orders(1..dir[f].body.pages) :
         LET r == RunFn(job[f].fn, f, dir[f].body, fault, order) IN
         /\ job' = [job EXCEPT ![f].st = r.next, ![f].conv = r.conv,
                               ![f].vrar = r.vrar, ![f].vzip = r.vzip,
                               ![f].out = r.out, ![f].pend = r.pend,
                               ![f].tmp = r.tmp]
         /\ fs' = IF r.next = "writing" THEN [fs EXCEPT ![job[f].path] = OpenZip] ELSE fs
    /\ UNCHANGED <<mode, dir, output, flag_unrar, pc, next_pdf>>
    /\ UNCHANGED <<pdf_vars, epub_vars>>

\* the job writes its entries, closes the destination and returns
JobEnd(f) ==
    /\ job[f].st = "writing"
    /\ job' = [job EXCEPT ![f].st = "finished", ![f].out = "returned",
                          ![f].tmp = IF job[f].tmp = "live"
                                     THEN temp_dir_exit("returned") ELSE job[f].tmp]
    /\ fs' = [fs EXCEPT ![job[f].path] = job[f].pend]
    /\ UNCHANGED <<mode, dir, output, flag_unrar, pc, next_pdf>>
    /\ UNCHANGED <<pdf_vars, epub_vars>>

DrvNext ==
    \/ ProcessInput
    \/ SingleReturn
    \/ ProcessPath
    \/ PdfCall
    \/ PdfReturn
    \/ PdfLoopEnd
    \/ RunCbr
    \/ RunEpub
    \/ \E f \in FileIds : Collect(f)
    \/ PoolDone
    \/ Unwind
    \/ \E f \in FileIds : JobBegin(f)
    \/ \E f \in FileIds : JobEnd(f)

Init == DrvInit /\ PdfIdle /\ EpubIdle

Next == DrvNext

Spec == Init /\ [][Next]_vars

----------------------------------------------------------------------------
(* Properties of the batch driver.                                          *)

Terminal == {"done", "crashed", "exited"}

\* the files of the directory that carry one of the three suffixes
Supported == {f \in 1..Len(dir) : Lower(dir[f].suffix) \in {".pdf", ".cbr", ".epub"}}

AllReachOutcome == \A f \in Supported : job[f].st = "finished"

\* C2: in a directory batch where the tool check passes and no job ends the
\* process, a job that raises does not abort the batch: once the driver has
\* stopped, every supported file was dispatched and reached its outcome.
C2_JobFailureIsolated ==
    (/\ mode = "dir"
     /\ pc \in Terminal
     /\ flag_unrar
     /\ \A f \in FileIds : job[f].out # "exit")
    => AllReachOutcome

\* C3: in a directory batch where the tool check passes and no job raises
\* an exception, a job stopped by a permission error on its destination
\* does not stop the batch: once the driver has stopped, every supported
\* file was dispatched and reached its outcome.
C3_PermissionFailureIsolated ==
    (/\ mode = "dir"
     /\ pc \in Terminal
     /\ flag_unrar
     /\ \A f \in FileIds : job[f].out # "raised")
    => AllReachOutcome

\* what process_input does with file f given alone, with no fault: the
\* function it calls and the archive that function leaves
SingleDispatch(f) ==
    LET fn == SingleFn(dir[f].suffix)
        r  == RunFn(fn, f, dir[f].body, "none", <<>>)
    IN [fn |-> fn, conv |-> r.conv, archive |-> r.pend]

\* C4: an e-book file found in a directory, which given alone is converted
\* to an archive, is dispatched as it is when given alone: same function,
\* same converter, same archive written.
C4_EpubDispatchSame ==
    \A f \in 1..Len(dir) :
        (/\ mode = "dir"
         /\ Lower(dir[f].suffix) = ".epub"
         /\ SingleDispatch(f).archive # NoFile
         /\ job[f].st = "finished"
         /\ job[f].out = "returned")
        => /\ job[f].fn = SingleDispatch(f).fn
           /\ job[f].conv = SingleDispatch(f).conv
           /\ job[f].pend = SingleDispatch(f).archive

\* C5: once the driver has stopped on a directory (the tool check having
\* passed), a job was dispatched for a file exactly when the file carries a
\* supported suffix.
C5_OneJobPerSupportedFile ==
    (mode = "dir" /\ pc \in Terminal /\ flag_unrar)
    => \A f \in 1..Len(dir) : (job[f].st # "none") <=> (f \in Supported)

\* the step of job f that ends or opens its destination
JobDecides(f) == job[f].st = "submitted" /\ job'[f].st # "submitted"

\* the step of job f that closes its destination
JobCloses(f) == job[f].st = "writing" /\ job'[f].st = "finished"

\* C6: convert_cbr_to_cbz acts on the validator results alone.  Valid rar:
\* CbrConverter extracts and assembles.  Not valid rar, valid zip: the
\* destination receives the bytes of the source (same entries) and no
\* converter runs.  Neither: the job returns, and its step leaves every
\* destination as it was.
C6_DispatchOnValidators ==
    /\ [](\A f \in FileIds :
            (job[f].fn = "convert_cbr_to_cbz" /\ job[f].st \in {"writing", "finished"})
            => /\ job[f].vrar = "true" =>
                    /\ job[f].conv = "CbrConverter"
                    /\ job[f].st = "writing" => job[f].pend = ZipOf(sorted(dir[f].body.entries))
               /\ (job[f].vrar = "false" /\ job[f].vzip = "true") =>
                    /\ job[f].conv = "copy"
                    /\ job[f].st = "writing" => job[f].pend = SrcBytes(f, dir[f].body)
               /\ (job[f].vrar = "false" /\ job[f].vzip = "false") =>
                    /\ job[f].conv = "skip"
                    /\ job[f].st = "finished" /\ job[f].out = "returned")
    /\ [][\A f \in FileIds :
            /\ (JobDecides(f) /\ job'[f].conv = "skip") => fs' = fs
            /\ (JobCloses(f) /\ job[f].conv = "copy") =>
                  /\ fs'[job[f].path] = SrcBytes(f, dir[f].body)
                  /\ fs'[job[f].path].entries = dir[f].body.entries]_vars

\* C6 witness: a mislabelled zip was copied to its destination
C6_Witness ==
    \E f \in FileIds :
        /\ job[f].fn = "convert_cbr_to_cbz"
        /\ job[f].vrar = "false" /\ job[f].vzip = "true"
        /\ job[f].st = "finished" /\ job[f].out = "returned"
        /\ fs[job[f].path] = SrcBytes(f, dir[f].body)

\* C7: no validator call raises.
C7_ValidatorsNeverRaise ==
    \A f \in FileIds : job[f].vrar # "raise" /\ job[f].vzip # "raise"

----------------------------------------------------------------------------
(* PdfConverter.                                                            *)

\* str(n) for n >= 0: the decimal digits
RECURSIVE Str(_)
Str(n) == IF n < 10 THEN <<n>> ELSE Str(n \div 10) \o <<n % 10>>

\* str.zfill(width): zeros on the left up to the width, never a cut
zfill(s, width) ==
    IF Len(s) >= width THEN s ELSE [i \in 1..(width - Len(s)) |-> 0] \o s

\* self.input.stem
Stem == "doc"

\* process_page, lines 258-261
Ext(fmt) == IF fmt = "png" THEN "png" ELSE "jpg"

\* process_page, line 282: the name of the entry of page page_number
PageName(page_number, pad, fmt) ==
    [stem |-> Stem, index |-> zfill(Str(page_number), pad), ext |-> Ext(fmt)]

\* the padding of __init__, which convert replaces
PaddingDefault(n) == 1

\* convert, line 299
Padding(n) == Len(Str(n))

\* the page numbers convert leaves out when it counts from 1 to n - 1
SubmittedPagesShort(n) == 1..(n - 1)

\* convert, lines 309-310: i + 1 for i in range(0, num_pages)
SubmittedPages(n) == {i + 1 : i \in 0..(n - 1)}

\* the floor of _compute_dpi, line 251
MinDpi == 100

\* the per-page value had it been rounded to the nearest whole number
dpi_value_nearest(width) == (2 * 2000 * 72 + width) \div (2 * width)

\* _compute_dpi, line 248: int(2000 / width * 72) for a width in whole points
dpi_value(width) == (2000 * 72) \div width

RECURSIVE Sum(_)
Sum(s) == IF s = <<>> THEN 0 ELSE s[1] + Sum(Tail(s))

\* round(s / n): to the nearest, a half to the even neighbour
round(s, n) ==
    LET q == s \div n
        r == s % n
    IN IF 2 * r < n THEN q
       ELSE IF 2 * r > n THEN q + 1
       ELSE IF q % 2 = 0 THEN q ELSE q + 1

Max(a, b) == IF a >= b THEN a ELSE b

\* _compute_dpi: the division by len(dpi_values) raises ZeroDivisionError
\* on a document without pages
compute_dpi(ws) ==
    LET dpi_values == [i \in 1..Len(ws) |-> dpi_value(ws[i])] IN
    IF Len(dpi_values) = 0 THEN [raised |-> TRUE, dpi |-> 0, values |-> dpi_values]
    ELSE [raised |-> FALSE, values |-> dpi_values,
          dpi |-> Max(round(Sum(dpi_values), Len(dpi_values)), MinDpi)]

Min(a, b) == IF a <= b THEN a ELSE b

RECURSIVE min(_)
min(s) == IF Len(s) = 1 THEN s[1] ELSE Min(s[1], min(Tail(s)))

RECURSIVE max(_)
max(s) == IF Len(s) = 1 THEN s[1] ELSE Max(s[1], max(Tail(s)))

\* analyze, lines 230-240: the same per-page values; min() of an empty
\* list raises ValueError; the mean is printed rounded and without a floor
analyze(ws) ==
    LET dpi_values == [i \in 1..Len(ws) |-> dpi_value(ws[i])] IN
    IF Len(dpi_values) = 0
    THEN [raised |-> TRUE, report |-> [NoReport EXCEPT !.values = dpi_values]]
    ELSE [raised |-> FALSE,
          report |-> [values |-> dpi_values, min |-> min(dpi_values),
                      max |-> max(dpi_values),
                      mean |-> round(Sum(dpi_values), Len(dpi_values)),
                      printed |-> TRUE]]

NoName == [stem |-> "", index |-> <<>>, ext |-> ""]
NoFuture == [st |-> "none", pad |-> 0, fmt |-> "", ok |-> FALSE, name |-> NoName]

PdfInit ==
    /\ num_pages \in 0..MaxPages
    /\ widths = [i \in 1..num_pages |-> 1000]
    /\ format \in {"png", "jpeg"}
    /\ dpi \in {0, 72}
    /\ padding = 1
    /\ archive = <<>>
    /\ page = [i \in 1..num_pages |-> NoFuture]
    /\ cpc = "start"
    /\ names = {}
    /\ named = 0
    /\ report = NoReport
    /\ dest = "absent"

\* convert, lines 289-310: the resolution, the padding, the destination
\* opened for writing, one process_page submitted per page with a copy of
\* self as it is then
PdfConvertOpen ==
    /\ cpc = "start"
    /\ LET d == IF dpi = 0 THEN compute_dpi(widths)
                ELSE [raised |-> FALSE, dpi |-> dpi, values |-> report.values] IN
       /\ report' = [report EXCEPT !.values = d.values]
       /\ IF d.raised
          THEN /\ cpc' = "raised"
               /\ UNCHANGED <<dpi, padding, page, dest>>
          ELSE
            /\ dpi' = d.dpi
            /\ padding' = Padding(num_pages)
            /\ \E denied \in BOOLEAN :
                 IF denied
                 THEN /\ cpc' = "exited"
                      /\ page' = page
                      /\ dest' = dest
                 ELSE /\ cpc' = "collect"
                      /\ dest' = "open"
                      /\ page' = [i \in DOMAIN page |->
                                    IF i \in SubmittedPages(num_pages)
                                    THEN [NoFuture EXCEPT !.st = "submitted",
                                                          !.pad = padding', !.fmt = format]
                                    ELSE page[i]]
    /\ UNCHANGED <<num_pages, widths, format, archive, names, named>>
    /\ UNCHANGED <<drv_vars, epub_vars>>

\* process_page in a worker: the name and the image, or ExportImageError
process_page(i) ==
    /\ i \in DOMAIN page
    /\ page[i].st = "submitted"
    /\ \E rendered \in BOOLEAN :
         page' = [page EXCEPT ![i].st = "done", ![i].ok = rendered,
                              ![i].name = IF rendered
                                          THEN PageName(i, page[i].pad, page[i].fmt)
                                          ELSE NoName]
    /\ UNCHANGED <<num_pages, widths, format, dpi, padding, archive, cpc, names, named, report, dest>>
    /\ UNCHANGED <<drv_vars, epub_vars>>

\* the same loop without the handler of ExportImageError: the error of a
\* page leaves convert
CollectPageUnhandled(i) ==
    /\ cpc = "collect"
    /\ i \in DOMAIN page
    /\ page[i].st = "done"
    /\ IF page[i].ok
       THEN /\ archive' = Append(archive, [name |-> page[i].name, data |-> i])
            /\ page' = [page EXCEPT ![i].st = "written"]
            /\ cpc' = cpc
       ELSE /\ archive' = archive
            /\ page' = page
            /\ cpc' = "raised"
    /\ UNCHANGED <<num_pages, widths, format, dpi, padding, names, named, report, dest>>
    /\ UNCHANGED <<drv_vars, epub_vars>>

\* convert, lines 313-320: as_completed hands over a finished future; its
\* result is written to the archive, or its error is logged
CollectPage(i) ==
    /\ cpc = "collect"
    /\ i \in DOMAIN page
    /\ page[i].st = "done"
    /\ IF page[i].ok
       THEN /\ archive' = Append(archive, [name |-> page[i].name, data |-> i])
            /\ page' = [page EXCEPT ![i].st = "written"]
       ELSE /\ archive' = archive
            /\ page' = [page EXCEPT ![i].st = "failed"]
    /\ UNCHANGED <<num_pages, widths, format, dpi, padding, cpc, names, named, report, dest>>
    /\ UNCHANGED <<drv_vars, epub_vars>>

\* convert, lines 321-322: every future was handed over, the archive is closed
PdfClose ==
    /\ cpc = "collect"
    /\ \A i \in SubmittedPages(num_pages) : page[i].st \in {"written", "failed"}
    /\ cpc' = "closed"
    /\ dest' = "closed"
    /\ UNCHANGED <<num_pages, widths, format, dpi, padding, archive, page, names, named, report>>
    /\ UNCHANGED <<drv_vars, epub_vars>>

PdfNext ==
    \/ PdfConvertOpen
    \/ \E i \in 1..MaxPages : process_page(i)
    \/ \E i \in 1..MaxPages : CollectPage(i)
    \/ PdfClose

InitPdf == DrvIdle /\ PdfInit /\ EpubIdle

NextPdf == PdfNext

SpecPdf == InitPdf /\ [][NextPdf]_vars

----------------------------------------------------------------------------
(* The entry names of one document, page after page.                        *)

NamesInit ==
    /\ num_pages \in 0..MaxNamePages
    /\ widths = <<>>
    /\ format \in {"png", "jpeg"}
    /\ dpi = 72
    /\ padding = 1
    /\ archive = <<>>
    /\ page = <<>>
    /\ cpc = "names_start"
    /\ names = {}
    /\ named = 0
    /\ report = NoReport
    /\ dest = "absent"

\* convert, lines 298-299
NamesOpen ==
    /\ cpc = "names_start"
    /\ padding' = Padding(num_pages)
    /\ cpc' = "names"
    /\ UNCHANGED <<num_pages, widths, format, dpi, archive, page, names, named, report, dest>>
    /\ UNCHANGED <<drv_vars, epub_vars>>

\* convert, line 309, and process_page, line 282, for the next page number
NamesPage ==
    /\ cpc = "names"
    /\ named + 1 \in SubmittedPages(num_pages)
    /\ names' = names \cup {PageName(named + 1, padding, format)}
    /\ named' = named + 1
    /\ UNCHANGED <<num_pages, widths, format, dpi, padding, archive, page, cpc, report, dest>>
    /\ UNCHANGED <<drv_vars, epub_vars>>

NamesNext == NamesOpen \/ NamesPage

InitNames == DrvIdle /\ NamesInit /\ EpubIdle

NextNames == NamesNext

SpecNames == InitNames /\ [][NextNames]_vars

----------------------------------------------------------------------------
(* _compute_dpi on its own.                                                 *)

\* page widths in points: letter (612), 1000, widths whose resolution lies
\* above, at and below the floor, and one (700) whose quotient 205.71 has a
\* fraction above one half
DpiWidths == {500, 612, 700, 1000, 1440, 3000}

DpiInit ==
    /\ num_pages \in 0..MaxDpiPages
    /\ widths \in [1..num_pages -> DpiWidths]
    /\ format = "png"
    /\ dpi = 0
    /\ padding = 1
    /\ archive = <<>>
    /\ page = <<>>
    /\ cpc = "dpi_start"
    /\ names = {}
    /\ named = 0
    /\ report = NoReport
    /\ dest = "absent"

\* convert, lines 292-293, with self.dpi unset
ComputeDpi ==
    /\ cpc = "dpi_start"
    /\ LET d == compute_dpi(widths) IN
       /\ dpi' = d.dpi
       /\ report' = [report EXCEPT !.values = d.values]
       /\ cpc' = IF d.raised THEN "dpi_raised" ELSE "dpi_set"
    /\ UNCHANGED <<num_pages, widths, format, padding, archive, page, names, named, dest>>
    /\ UNCHANGED <<drv_vars, epub_vars>>

\* main with --analyze: PdfConverter.analyze instead of convert
Analyze ==
    /\ cpc = "dpi_start"
    /\ LET a == analyze(widths) IN
       /\ report' = a.report
       /\ cpc' = IF a.raised THEN "analyze_raised" ELSE "analyzed"
    /\ UNCHANGED <<num_pages, widths, format, dpi, padding, archive, page, names, named, dest>>
    /\ UNCHANGED <<drv_vars, epub_vars>>

InitDpi == DrvIdle /\ DpiInit /\ EpubIdle

NextDpi == ComputeDpi \/ Analyze

SpecDpi == InitDpi /\ [][NextDpi]_vars

----------------------------------------------------------------------------
(* resolve_image over the spine of one extracted package (SpecEpub).  The   *)
(* extracted tree holds a.png (path 1) and b.png (path 2) and no c.png      *)
(* (path 3).                                                                *)

A1 == Img(1, 1, TRUE)      \* src="a.png"
A2 == Img(1, 2, TRUE)      \* src="./a.png"
B1 == Img(2, 1, TRUE)      \* src="b.png"
Gone == Img(3, 1, FALSE)   \* src="c.png"

\* the spine items a package may list
SpineDocs ==
    {Doc(<<>>), Doc(<<A1>>), Doc(<<B1, A1>>), Doc(<<A1, A2>>), Doc(<<A2, B1, A1>>),
     Doc(<<Gone, B1>>), Doc(<<EmptySrc, A1>>), Doc(<<B1, NoSrc, A1>>),
     MissingDoc, UnparsableDoc, UnlistedDoc(<<B1>>)}

EpubInit ==
    /\ \E n \in 0..MaxSpine : spine \in [1..n -> SpineDocs]
    /\ ri_spine_list = <<>>
    /\ ri_images = <<>>
    /\ ri_pos = 1
    /\ rpc = "start"

\* EpubConverter.convert, lines 155-158, and resolve_image, lines 55-56
ResolveBegin ==
    /\ rpc = "start"
    /\ ri_spine_list' = spines_images([NoPkg EXCEPT !.spine = spine])
    /\ ri_images' = <<>>
    /\ ri_pos' = 1
    /\ rpc' = "loop"
    /\ UNCHANGED spine
    /\ UNCHANGED <<drv_vars, pdf_vars>>

\* resolve_image, lines 58-77: one spine document; an exception that is
\* not etree.ParseError leaves resolve_image, and its images with it
ResolveDoc ==
    /\ rpc = "loop"
    /\ ri_pos <= Len(ri_spine_list)
    /\ LET r == resolve_doc(ri_spine_list[ri_pos], ri_images) IN
       IF r.raised
       THEN /\ rpc' = "raised"
            /\ ri_images' = <<>>
            /\ ri_pos' = ri_pos
       ELSE /\ rpc' = "loop"
            /\ ri_images' = r.images
            /\ ri_pos' = ri_pos + 1
    /\ UNCHANGED <<spine, ri_spine_list>>
    /\ UNCHANGED <<drv_vars, pdf_vars>>

\* resolve_image, line 78
ResolveReturn ==
    /\ rpc = "loop"
    /\ ri_pos > Len(ri_spine_list)
    /\ rpc' = "returned"
    /\ UNCHANGED <<spine, ri_spine_list, ri_images, ri_pos>>
    /\ UNCHANGED <<drv_vars, pdf_vars>>

InitEpub == DrvIdle /\ PdfIdle /\ EpubInit

NextEpub == ResolveBegin \/ ResolveDoc \/ ResolveReturn

SpecEpub == InitEpub /\ [][NextEpub]_vars

----------------------------------------------------------------------------
(* Properties of PdfConverter.                                              *)

\* the page an archive entry shows
PageOf(entry) == entry.data

\* C1: the entries of the archive stand in ascending page order, whatever
\* the order in which the workers complete.
C1_ArchiveAscending ==
    \A i, j \in 1..Len(archive) : i < j => PageOf(archive[i]) < PageOf(archive[j])

NoPageFailed == \A i \in DOMAIN page : ~(page[i].st \in {"done", "failed"} /\ ~page[i].ok)

\* C8: once convert has completed on a document none of whose pages failed
\* to render, the archive holds one entry per page: as many entries as
\* pages, every page there, none twice.
C8_OneEntryPerPage ==
    (cpc = "closed" /\ NoPageFailed)
    => /\ Len(archive) = num_pages
       /\ {PageOf(archive[i]) : i \in 1..Len(archive)} = 1..num_pages
       /\ \A i, j \in 1..Len(archive) :
             i # j => /\ PageOf(archive[i]) # PageOf(archive[j])
                      /\ archive[i].name # archive[j].name

\* C8 witness: a document of several pages, all rendered, its archive closed
C8_Witness ==
    /\ cpc = "closed"
    /\ num_pages = MaxPages
    /\ NoPageFailed
    /\ Len(archive) = MaxPages

\* int(digits)
RECURSIVE Val(_)
Val(d) == IF d = <<>> THEN 0 ELSE 10 * Val(SubSeq(d, 1, Len(d) - 1)) + d[Len(d)]

RECURSIVE Pow10(_)
Pow10(k) == IF k = 0 THEN 1 ELSE 10 * Pow10(k - 1)

\* the number of decimal digits of n
DigitCount(n) == IF n = 0 THEN 1 ELSE CHOOSE w \in 1..6 : Pow10(w - 1) <= n /\ n < Pow10(w)

\* C9: the names built for a document of N pages have the document's stem
\* and the extension of the format; their indices are the page numbers 1,
\* 2, ... without gap or repeat, each written with exactly as many digits
\* as N has (zeros on the left).
C9_NamesDensePadded ==
    cpc = "names"
    => /\ \A n \in names :
             /\ n.stem = Stem
             /\ n.ext = (IF format = "png" THEN "png" ELSE "jpg")
             /\ Len(n.index) = DigitCount(num_pages)
             /\ \A k \in 1..Len(n.index) : n.index[k] \in 0..9
       /\ {Val(n.index) : n \in names} = 1..named
       /\ Cardinality(names) = named
       /\ named <= num_pages

\* C9 witness: all names of a 100-page document, 001 and 100 among them
C9_Witness ==
    /\ cpc = "names"
    /\ num_pages = 100
    /\ named = 100
    /\ [stem |-> Stem, index |-> <<0, 0, 1>>, ext |-> "png"] \in names
    /\ [stem |-> Stem, index |-> <<1, 0, 0>>, ext |-> "png"] \in names

\* C10: _compute_dpi returns, its value is at least 100, and it is 144 when
\* every page is 1000 points wide.
C10_AutoDpiAtLeast100 ==
    cpc \in {"dpi_set", "dpi_raised"}
    => /\ cpc = "dpi_set"
       /\ dpi >= 100
       /\ (\A i \in 1..Len(widths) : widths[i] = 1000) => dpi = 144

----------------------------------------------------------------------------
(* The per-page resolutions and their mean (SpecDpi).                       *)

Abs(x) == IF x < 0 THEN 0 - x ELSE x

\* v is 2000 / w * 72 with its fraction dropped
IsTruncated(v, w) == v * w <= 2000 * 72 /\ 2000 * 72 < (v + 1) * w

\* v is a whole number nearest to num / den
IsNearest(v, num, den) == 2 * Abs(den * v - num) <= den

\* dpi is the mean of the values vs to the nearest, or MinDpi when below it
IsFlooredMean(d, vs) ==
    /\ d >= MinDpi
    /\ \/ IsNearest(d, Sum(vs), Len(vs))
       \/ d = MinDpi /\ Sum(vs) < MinDpi * Len(vs)

\* what analyze printed are the least and the greatest of vs and their mean
IsReportOf(r, vs) ==
    /\ r.printed
    /\ \E i \in DOMAIN vs : r.min = vs[i]
    /\ \E i \in DOMAIN vs : r.max = vs[i]
    /\ \A i \in DOMAIN vs : r.min <= vs[i] /\ vs[i] <= r.max
    /\ IsNearest(r.mean, Sum(vs), Len(vs))

\* C11 as the specification states it: each per-page value is
\* 2000 / width * 72 rounded to the nearest whole number; _compute_dpi
\* returns their mean floored at 100 and analyze reports their min, max
\* and mean.
C11_RoundedDpiMean ==
    /\ cpc \in {"dpi_set", "analyzed"} =>
          /\ Len(report.values) = num_pages
          /\ \A i \in 1..num_pages : IsNearest(report.values[i], 2000 * 72, widths[i])
    /\ cpc = "dpi_set" => IsFlooredMean(dpi, report.values)
    /\ cpc = "analyzed" => IsReportOf(report, report.values)

\* C11, amended: each per-page value is 2000 / width * 72 truncated to a
\* whole number (not rounded to the nearest); the value _compute_dpi
\* returns is the mean of these values to the nearest whole number, floored
\* at 100; what analyze prints are the min, the max and the mean (to the
\* nearest whole number) of the same truncated values.
C11_TruncatedDpiMean ==
    /\ cpc \in {"dpi_set", "analyzed"} =>
          /\ Len(report.values) = num_pages
          /\ \A i \in 1..num_pages : IsTruncated(report.values[i], widths[i])
    /\ cpc = "dpi_set" => IsFlooredMean(dpi, report.values)
    /\ cpc = "analyzed" => IsReportOf(report, report.values)

\* a page of width 700 (205.71 dpi) and one of width 1000 (144 dpi) gave
\* the mean of 205 and 144, and analyze reported 144, 205 for such pages
C11_Witness ==
    \/ cpc = "dpi_set" /\ widths = <<700, 1000>> /\ dpi = 174
    \/ cpc = "analyzed" /\ widths = <<700, 1000>> /\ report.min = 144 /\ report.max = 205

----------------------------------------------------------------------------
(* The images of the spine documents (SpecEpub).                            *)

\* the paths of the existing files that the tags imgs refer to, one per
\* reference, in document order
RefPaths(imgs) ==
    LET shown == SelectSeq(imgs, LAMBDA t : t.src = "ref" /\ t.exists)
    IN [i \in 1..Len(shown) |-> shown[i].path]

\* the same over the documents of a spine that exist and parse
RECURSIVE SpineRefPaths(_)
SpineRefPaths(docs) ==
    IF docs = <<>> THEN <<>>
    ELSE (IF Head(docs).exists /\ Head(docs).parses THEN RefPaths(Head(docs).imgs) ELSE <<>>)
         \o SpineRefPaths(Tail(docs))

\* the position at which x is first seen in s
FirstPos(s, x) == CHOOSE i \in 1..Len(s) : s[i] = x /\ \A j \in 1..(i - 1) : s[j] # x

\* C12: what resolve_image returns holds every existing file that a spine
\* document refers to exactly once, whatever the spelling of the
\* references, in the order in which the files are first seen in the
\* traversal of the spine; for the spine [doc1, doc2] with doc1 showing
\* b.png then a.png and doc2 showing a.png it is [b.png, a.png].
C12_FirstSeenOncePerPath ==
    rpc = "returned" =>
       LET refs == SpineRefPaths(ri_spine_list) IN
       /\ Range(ri_images) = Range(refs)
       /\ \A i, j \in DOMAIN ri_images :
             i < j => /\ ri_images[i] # ri_images[j]
                      /\ FirstPos(refs, ri_images[i]) < FirstPos(refs, ri_images[j])
       /\ ri_spine_list = <<Doc(<<B1, A1>>), Doc(<<A1>>)>> => ri_images = <<2, 1>>

\* b.png then a.png in the first document, a.png under two spellings in the
\* second: b.png and a.png were returned, once each
C12_Witness ==
    /\ rpc = "returned"
    /\ ri_spine_list = <<Doc(<<B1, A1>>), Doc(<<A1, A2>>)>>
    /\ ri_images = <<2, 1>>

----------------------------------------------------------------------------
(* A conversion without entries (SpecPdf).                                  *)

\* C13: when PdfConverter.convert has ended with no entry to write (the
\* document has no page, or no page rendered), no destination archive
\* was created.
C13_NoArchiveWithoutEntries ==
    (cpc = "closed" /\ archive = <<>>) => dest = "absent"

----------------------------------------------------------------------------
(* The archive CbrConverter.convert writes (Spec).                          *)

\* the sequence s is in strictly ascending order
Ascending(s) == \A i, j \in DOMAIN s : i < j => s[i] < s[j]

\* C14: when CbrConverter.convert closes its destination, the destination
\* is a zip archive holding exactly the files of the source archive, each
\* once and under its own relative path, in ascending path order; the
\* members img/2.png, img/1.png, readme.txt (2, 1, 3) are written as
\* img/1.png, img/2.png, readme.txt.
C14_ExtractedFilesSorted ==
    [][\A f \in FileIds :
         (JobCloses(f) /\ job[f].conv = "CbrConverter") =>
            LET cbz == fs'[job[f].path] IN
            /\ cbz.by = "ZipFile"
            /\ Len(cbz.entries) = Len(dir[f].body.entries)
            /\ Range(cbz.entries) = Range(dir[f].body.entries)
            /\ Ascending(cbz.entries)
            /\ dir[f].body.entries = <<2, 1, 3>> => cbz.entries = <<1, 2, 3>>]_vars

\* the three-member archive was converted and its destination closed
C14_Witness ==
    \E f \in FileIds :
        /\ job[f].conv = "CbrConverter"
        /\ job[f].st = "finished" /\ job[f].out = "returned"
        /\ dir[f].body.entries = <<2, 1, 3>>
        /\ fs[job[f].path] = ZipOf(<<1, 2, 3>>)

----------------------------------------------------------------------------
(* The temporary extraction directory of a job (Spec).                      *)

\* C15: the temporary directory of a CbrConverter or EpubConverter job
\* exists only while the job is under way: there is none before the job
\* runs, and once the job has ended (by returning, by an exception, or by
\* the sys.exit of the permission-error path) it is removed; when the
\* program has ended no temporary directory is left.
C15_TempDirOnlyDuringJob ==
    \A f \in FileIds :
        /\ job[f].st \in {"none", "submitted"} => job[f].tmp = "none"
        /\ job[f].tmp = "live" => job[f].st = "writing" /\ uses_temp_dir(job[f].conv)
        /\ (job[f].st = "finished" /\ uses_temp_dir(job[f].conv)) => job[f].tmp = "removed"
        /\ pc \in Terminal => job[f].tmp # "live"

\* a job that extracted into a temporary directory was ended by sys.exit
\* on the permission error, and its directory is removed
C15_Witness ==
    \E f \in FileIds :
        /\ uses_temp_dir(job[f].conv)
        /\ job[f].st = "finished"
        /\ job[f].out = "exit"
        /\ job[f].tmp = "removed"

----------------------------------------------------------------------------
(* A page that fails to render (SpecPdf).                                   *)

\* the entries of the archive that hold page i
EntriesOf(i) == {k \in 1..Len(archive) : PageOf(archive[k]) = i}

\* the step in which convert takes the failed future of page i
CollectsFailure(i) ==
    /\ i \in DOMAIN page
    /\ page[i].st = "done" /\ ~page[i].ok
    /\ page'[i].st # "done"

\* C16: the rendering failure of a page is handled for that page alone:
\* while convert collects the futures nothing but the closing of the
\* archive ends the collection; the step that takes the failed future
\* marks page i as failed (the error is logged with its index), writes
\* nothing, leaves the futures of the other pages as they are and leaves
\* convert collecting; and once convert has completed, the archive holds
\* exactly one entry for every page that rendered and none for a page
\* that failed.
C16_PageFailureIsolated ==
    /\ [][cpc = "collect" => cpc' \in {"collect", "closed"}]_vars
    /\ [][\A i \in 1..MaxPages :
            CollectsFailure(i) =>
               /\ page'[i].st = "failed"
               /\ cpc' = "collect"
               /\ archive' = archive
               /\ \A j \in DOMAIN page : j # i => page'[j] = page[j]]_vars
    /\ [](cpc = "closed" =>
            \A i \in 1..num_pages :
               /\ page[i].ok => page[i].st = "written" /\ Cardinality(EntriesOf(i)) = 1
               /\ ~page[i].ok => page[i].st = "failed" /\ EntriesOf(i) = {})

\* of three pages the second failed to render; convert completed with the
\* first and the third in the archive
C16_Witness ==
    /\ cpc = "closed"
    /\ num_pages = 3
    /\ page[2].st = "failed"
    /\ page[1].st = "written" /\ page[3].st = "written"
    /\ {PageOf(archive[k]) : k \in 1..Len(archive)} = {1, 3}

----------------------------------------------------------------------------
(* Concurrent writers of one destination (Spec).                            *)

\* C17: in a directory batch, whatever the output setting, no two jobs that
\* are writing at the same time write to the same destination path.
C17_NoSharedDestination ==
    mode = "dir" =>
       \A f, g \in FileIds :
          (f # g /\ job[f].st = "writing" /\ job[g].st = "writing")
          => job[f].path # job[g].path

----------------------------------------------------------------------------
(* A spine document that cannot be processed (SpecEpub).                    *)

\* the document exists but its markup does not parse, or one of its <img>
\* tags has no src attribute
Unprocessable(d) ==
    d.exists /\ (~d.parses \/ \E k \in DOMAIN d.imgs : d.imgs[k].src = "absent")

\* C18: resolve_image is never left by an error of a spine document, and
\* what it returns are the images of the spine documents that can be
\* processed, in spine order, a document that cannot be processed
\* contributing none.
C18_UnprocessableDocSkipped ==
    /\ rpc # "raised"
    /\ rpc = "returned" =>
          LET others == SelectSeq(ri_spine_list, LAMBDA d : ~Unprocessable(d))
              refs == SpineRefPaths(others) IN
          /\ Range(ri_images) = Range(refs)
          /\ \A i, j \in DOMAIN ri_images :
                i < j => FirstPos(refs, ri_images[i]) < FirstPos(refs, ri_images[j])

====
